---- MODULE Spec2Model ----
(***************************************************************************)
(* Extended Page Table (EPT) structure of the hypervisor and its           *)
(* EPT-violation protocol.                                                 *)
(*                                                                         *)
(* hypervisor/src/intel/ept/paging.rs   Ept, Entry, AccessType             *)
(* hypervisor/src/intel/vmexit/ept.rs   handle_ept_violation,              *)
(*                                      handle_ept_misconfiguration        *)
(* driver/src/main.rs                   allocation and build_identity      *)
(*                                                                         *)
(* The tables of the source hold 512 entries and the Ept holds 64 page     *)
(* tables; the model keeps the layout and the arithmetic and scales the    *)
(* two sizes down (ENTRIES, PT_TABLES).  An Entry is the record of the     *)
(* bit fields the code reads and writes.                                   *)
(***************************************************************************)
EXTENDS Integers, Sequences, FiniteSets, TLC

VARIABLES
    ept,        \* the Ept the operations act on (pml4, pdpt, pd, pt)
    eptBase,    \* address of that Ept (4096-aligned: repr(C, align(4096)))
    mtrr,       \* the memory type resolver: queried range -> Option<MemoryType>
    phase,      \* "zeroed" | "built" | "aborted" (driver main)
    nOps,       \* number of split/modify/remap calls made so far
    last,       \* the last Ept call: operation, arguments, result
    activeEptp, \* per logical processor: VMCS control field EPTP_FULL
    pc,         \* per logical processor: position inside the VM-exit handler
    qual,       \* per logical processor: decoded exit qualification
    vmwrites,   \* per logical processor: EPTP writes in the current handler run
    invepts,    \* per logical processor: invept_all_contexts calls in that run
    exitType,   \* per logical processor: value the last handler run returned
    shared_data, \* vm.shared_data: primary_eptp, secondary_eptp
    entryEptp,  \* per logical processor: EPTP_FULL when the last exit was taken
    lastSwapRW, \* per logical processor: an exit matched one of the two swap
                \* patterns and the most recent such exit was read/write
    access,     \* per logical processor: the access to the hooked page that the
                \* guest instruction at RIP makes ("none": no such access)
    entryCell,  \* the Entry handed to unmap_2mb (entry: &mut Entry)
    unmaps,     \* number of unmap_2mb calls made on it
    physAddr,   \* the PhysicalAddress constructed last (its constructor, its u64)
    arg,        \* the u64 handed to the constructor
    ret         \* the value the last accessor or create_eptp call returned

eptVars == <<ept, eptBase, mtrr, phase, nOps, last>>
vmVars  == <<activeEptp, pc, qual, vmwrites, invepts, exitType, shared_data,
            entryEptp, lastSwapRW, access>>
fnVars  == <<entryCell, unmaps, physAddr, arg, ret>>
vars    == <<ept, eptBase, mtrr, phase, nOps, last,
             activeEptp, pc, qual, vmwrites, invepts, exitType, shared_data,
             entryEptp, lastSwapRW, access, entryCell, unmaps, physAddr, arg, ret>>

----------------------------------------------------------------------------
(* Sizes *)

\* entries of one Table (512 in the source), scaled down
ENTRIES == 2
\* self.pt.len() (64 in the source), scaled down
PT_TABLES == 3
\* split/modify/remap calls explored after build_identity
MaxOps == 2
\* logical processors taking VM exits
NumCpus == 2

BASE_PAGE_SHIFT == 12
BASE_PAGE_SIZE == 4096
LARGE_PAGE_SIZE == ENTRIES * BASE_PAGE_SIZE
\* span of one PD table / one PDPT entry (1 GB in the source)
HUGE_PAGE_SIZE == ENTRIES * LARGE_PAGE_SIZE
\* span of one PML4 entry: the mapped range (512 GB in the source)
MAPPED_SIZE == ENTRIES * HUGE_PAGE_SIZE

TableIdx == 0 .. ENTRIES - 1
PtTableIdx == 0 .. PT_TABLES - 1
Cpus == 1 .. NumCpus

\* MemoryType values stamped into leaf entries
Uncacheable == 0
WriteBack == 6
MemTypes == {Uncacheable, WriteBack}

Shr(x, n) == x \div (2 ^ n)

----------------------------------------------------------------------------
(* x86::bits64::paging helpers (the shifts and masks of the crate, with the
   table size scaled: an index is 9 bits in the source) *)

\* (va >> 30) & 0x1ff
pdpt_index(va) == (va \div HUGE_PAGE_SIZE) % ENTRIES
\* (va >> 21) & 0x1ff
pd_index(va) == (va \div LARGE_PAGE_SIZE) % ENTRIES
\* (va >> 12) & 0x1ff
pt_index(va) == (va \div BASE_PAGE_SIZE) % ENTRIES
is_base_page_aligned(va) == va % BASE_PAGE_SIZE = 0
is_large_page_aligned(va) == va % LARGE_PAGE_SIZE = 0

----------------------------------------------------------------------------
(* Entry: the bitfield accessors *)

ZeroEntry ==
    [readable |-> FALSE, writable |-> FALSE, executable |-> FALSE,
     memory_type |-> 0, large |-> FALSE, pfn |-> 0]

set_readable(e, b) == [e EXCEPT !.readable = b]
set_writable(e, b) == [e EXCEPT !.writable = b]
set_executable(e, b) == [e EXCEPT !.executable = b]
\* bits 5..3: the setter keeps the low three bits of the value
set_memory_type(e, v) == [e EXCEPT !.memory_type = v % 8]
set_large(e, b) == [e EXCEPT !.large = b]
\* bits 51..12 (every frame number of the model fits the 40 bits)
set_pfn(e, v) == [e EXCEPT !.pfn = v]

\* set_readable(true); set_writable(true); set_executable(true)
FullAccess(e) == set_executable(set_writable(set_readable(e, TRUE), TRUE), TRUE)

\* AccessType::contains for the single-bit flags READ, WRITE, EXECUTE
READ == 1
WRITE == 2
EXECUTE == 4
contains(access_type, flag) == (access_type \div flag) % 2 = 1

----------------------------------------------------------------------------
(* Ept: layout *)

ZeroTable == [j \in TableIdx |-> ZeroEntry]

\* box_zeroed::<Ept>()
ZeroEpt ==
    [pml4 |-> ZeroTable,
     pdpt |-> ZeroTable,
     pd   |-> [i \in TableIdx |-> ZeroTable],
     pt   |-> [k \in PtTableIdx |-> ZeroTable]]

\* addr_of!(self.pml4), addr_of!(self.pdpt), addr_of!(self.pd[i]),
\* addr_of!(self.pt[k]): repr(C) fields in order, each Table one 4096-byte page
Pml4Addr(base) == base
PdptAddr(base) == base + BASE_PAGE_SIZE
PdAddr(base, i) == base + (2 + i) * BASE_PAGE_SIZE
PtAddr(base, k) == base + (2 + ENTRIES + k) * BASE_PAGE_SIZE

----------------------------------------------------------------------------
(* Memory type resolver (Mtrr::find), a lookup service *)

\* the ranges build_identity queries: 4KB ranges of the first 2MB, then 2MB ranges
PtRanges == {<<p * BASE_PAGE_SIZE, (p + 1) * BASE_PAGE_SIZE>> : p \in TableIdx}
LargeRanges ==
    {<<r * LARGE_PAGE_SIZE, (r + 1) * LARGE_PAGE_SIZE>> :
        r \in 1 .. ENTRIES * ENTRIES - 1}
Ranges == PtRanges \cup LargeRanges

\* Option<MemoryType>: {} is None, {t} is Some(t)
OptMemType == {{}} \cup {{t} : t \in MemTypes}

MtrrFind(m, lo, hi) == m[<<lo, hi>>]

----------------------------------------------------------------------------
(* Ept::build_identity *)

\* a 4KB leaf of pt[0]: full access, memory type, pfn = pa >> BASE_PAGE_SHIFT
Pt0Leaf(pte, memory_type, pa) ==
    set_pfn(set_memory_type(FullAccess(pte), memory_type), Shr(pa, BASE_PAGE_SHIFT))

\* mutant of LargeLeaf: the frame number is set from the unshifted address
LargeLeaf_PfnUnshifted(pde, memory_type, pa) ==
    set_pfn(set_large(set_memory_type(FullAccess(pde), memory_type), TRUE), pa)

\* a 2MB leaf: full access, memory type, large, pfn = pa >> BASE_PAGE_SHIFT
LargeLeaf(pde, memory_type, pa) ==
    set_pfn(set_large(set_memory_type(FullAccess(pde), memory_type), TRUE),
            Shr(pa, BASE_PAGE_SHIFT))

RECURSIVE BuildPt0_FirstRangeOnly(_, _, _, _)
\* mutant of BuildPt0: every entry takes the memory type of the first 4KB range
BuildPt0_FirstRangeOnly(e, m, pa, t) ==
    IF t = ENTRIES THEN [ept |-> e, pa |-> pa, ok |-> TRUE]
    ELSE LET found == MtrrFind(m, 0, BASE_PAGE_SIZE) IN
         IF found = {} THEN [ept |-> e, pa |-> pa, ok |-> FALSE]
         ELSE LET memory_type == CHOOSE x \in found : TRUE
              IN BuildPt0_FirstRangeOnly(
                     [e EXCEPT !.pt[0][t] = Pt0Leaf(@, memory_type, pa)],
                     m, pa + BASE_PAGE_SIZE, t + 1)

RECURSIVE BuildPt0(_, _, _, _)
\* the loop over self.pt[0] entries, from entry t on, with the cursor pa
BuildPt0(e, m, pa, t) ==
    IF t = ENTRIES THEN [ept |-> e, pa |-> pa, ok |-> TRUE]
    ELSE LET found == MtrrFind(m, pa, pa + BASE_PAGE_SIZE) IN
         IF found = {} THEN [ept |-> e, pa |-> pa, ok |-> FALSE]
         ELSE LET memory_type == CHOOSE x \in found : TRUE
              IN BuildPt0([e EXCEPT !.pt[0][t] = Pt0Leaf(@, memory_type, pa)],
                          m, pa + BASE_PAGE_SIZE, t + 1)

\* mutant of BuildPde: the large entry gets its permissions and large bit
\* before the resolver is asked, so a failed query leaves it half written
BuildPde_WritesBeforeResolving(e, m, base, pa, i, j) ==
    IF pa = 0
    THEN LET pde == set_pfn(FullAccess(e.pd[i][j]), Shr(PtAddr(base, 0), BASE_PAGE_SHIFT))
         IN BuildPt0([e EXCEPT !.pd[i][j] = pde], m, pa, 0)
    ELSE LET found == MtrrFind(m, pa, pa + LARGE_PAGE_SIZE)
             early == [e EXCEPT !.pd[i][j] = set_large(FullAccess(@), TRUE)]
         IN
         IF found = {} THEN [ept |-> early, pa |-> pa, ok |-> FALSE]
         ELSE LET memory_type == CHOOSE x \in found : TRUE
              IN [ept |-> [e EXCEPT !.pd[i][j] = LargeLeaf(@, memory_type, pa)],
                  pa |-> pa + LARGE_PAGE_SIZE, ok |-> TRUE]

\* one PD entry pd[i][j] of the walk, reached with the cursor pa
BuildPde(e, m, base, pa, i, j) ==
    IF pa = 0
    THEN LET pde == set_pfn(FullAccess(e.pd[i][j]), Shr(PtAddr(base, 0), BASE_PAGE_SHIFT))
         IN BuildPt0([e EXCEPT !.pd[i][j] = pde], m, pa, 0)
    ELSE LET found == MtrrFind(m, pa, pa + LARGE_PAGE_SIZE) IN
         IF found = {} THEN [ept |-> e, pa |-> pa, ok |-> FALSE]
         ELSE LET memory_type == CHOOSE x \in found : TRUE
              IN [ept |-> [e EXCEPT !.pd[i][j] = LargeLeaf(@, memory_type, pa)],
                  pa |-> pa + LARGE_PAGE_SIZE, ok |-> TRUE]

RECURSIVE BuildWalk(_, _, _, _, _)
\* the nested loops over pdpt entries i and PD entries j, from the k-th PD entry
\* of the walk on (k = i * ENTRIES + j); the cursor pa is carried through
BuildWalk(e, m, base, pa, k) ==
    IF k = ENTRIES * ENTRIES THEN [ept |-> e, pa |-> pa, ok |-> TRUE]
    ELSE LET i == k \div ENTRIES
             j == k % ENTRIES
             e1 == IF j = 0
                   THEN [e EXCEPT !.pdpt[i] =
                            set_pfn(FullAccess(@), Shr(PdAddr(base, i), BASE_PAGE_SHIFT))]
                   ELSE e
             r == BuildPde(e1, m, base, pa, i, j)
         IN IF r.ok THEN BuildWalk(r.ept, m, base, r.pa, k + 1) ELSE r

build_identity(e, m, base) ==
    LET e0 == [e EXCEPT !.pml4[0] =
                  set_pfn(FullAccess(@), Shr(PdptAddr(base), BASE_PAGE_SHIFT))]
        r == BuildWalk(e0, m, base, 0, 0)
    IN [ept |-> r.ept,
        res |-> IF r.ok THEN "Ok" ELSE "MemoryTypeResolutionError"]

----------------------------------------------------------------------------
(* Ept::unmap_2mb *)

unmap_2mb(entry) ==
    IF ~entry.readable THEN entry
    ELSE set_pfn(set_large(set_memory_type(
             set_executable(set_writable(set_readable(entry, FALSE), FALSE), FALSE),
             0), FALSE), 0)

----------------------------------------------------------------------------
(* Ept::split_2mb_to_4kb, modify_page_permissions, remap_gpa_to_hpa *)

\* mutant of ValidPtIndex: the reserved index 0 is accepted
ValidPtIndex_AllowsZero(pt_table_index) == ~(pt_table_index >= PT_TABLES)

\* pt_table_index == 0 || pt_table_index >= self.pt.len() is the rejection
ValidPtIndex(pt_table_index) ==
    ~(pt_table_index = 0 \/ pt_table_index >= PT_TABLES)

\* mutant of SplitPt: the entries are numbered from frame 0, not from guest_pa
SplitPt_FramesFromZero(pt, guest_pa, memory_type) ==
    [t \in TableIdx |->
        set_pfn(set_memory_type(FullAccess(pt[t]), memory_type),
                Shr(t * BASE_PAGE_SIZE, BASE_PAGE_SHIFT))]

\* the 512 entries written into pt[pt_table_index]
SplitPt(pt, guest_pa, memory_type) ==
    [t \in TableIdx |->
        set_pfn(set_memory_type(FullAccess(pt[t]), memory_type),
                Shr(guest_pa + t * BASE_PAGE_SIZE, BASE_PAGE_SHIFT))]

\* the PD entry repointed at the page table
SplitPde(pde, memory_type, pt_addr) ==
    set_pfn(set_large(set_memory_type(FullAccess(pde), memory_type), FALSE),
            Shr(pt_addr, BASE_PAGE_SHIFT))

\* mutant of split_2mb_to_4kb: the large() check is missing
split_2mb_to_4kb_NoLargeCheck(e, base, guest_pa, pt_table_index) ==
    IF ~ValidPtIndex(pt_table_index) THEN [ept |-> e, res |-> "InvalidPtIndex"]
    ELSE LET i == pdpt_index(guest_pa)
             j == pd_index(guest_pa)
             pde == e.pd[i][j]
             memory_type == pde.memory_type
             unmapped == unmap_2mb(pde)
         IN [ept |-> [e EXCEPT
                !.pt[pt_table_index] = SplitPt(@, guest_pa, memory_type),
                !.pd[i][j] = SplitPde(unmapped, memory_type,
                                      PtAddr(base, pt_table_index))],
             res |-> "Ok"]

\* mutant of split_2mb_to_4kb: an index some PD entry already points to is
\* refused
split_2mb_to_4kb_TracksOwnership(e, base, guest_pa, pt_table_index) ==
    IF ~ValidPtIndex(pt_table_index) THEN [ept |-> e, res |-> "InvalidPtIndex"]
    ELSE LET i == pdpt_index(guest_pa)
             j == pd_index(guest_pa)
             pde == e.pd[i][j]
             used == \E a \in TableIdx, b \in TableIdx :
                        /\ ~e.pd[a][b].large
                        /\ e.pd[a][b].pfn =
                              Shr(PtAddr(base, pt_table_index), BASE_PAGE_SHIFT)
         IN IF ~pde.large \/ used THEN [ept |-> e, res |-> "PageAlreadySplit"]
            ELSE LET memory_type == pde.memory_type
                     unmapped == unmap_2mb(pde)
                 IN [ept |-> [e EXCEPT
                        !.pt[pt_table_index] = SplitPt(@, guest_pa, memory_type),
                        !.pd[i][j] = SplitPde(unmapped, memory_type,
                                              PtAddr(base, pt_table_index))],
                     res |-> "Ok"]

split_2mb_to_4kb(e, base, guest_pa, pt_table_index) ==
    IF ~ValidPtIndex(pt_table_index) THEN [ept |-> e, res |-> "InvalidPtIndex"]
    ELSE LET i == pdpt_index(guest_pa)
             j == pd_index(guest_pa)
             pde == e.pd[i][j]
         IN IF ~pde.large THEN [ept |-> e, res |-> "PageAlreadySplit"]
            ELSE LET memory_type == pde.memory_type
                     unmapped == unmap_2mb(pde)
                 IN [ept |-> [e EXCEPT
                        !.pt[pt_table_index] = SplitPt(@, guest_pa, memory_type),
                        !.pd[i][j] = SplitPde(unmapped, memory_type,
                                              PtAddr(base, pt_table_index))],
                     res |-> "Ok"]

\* mutant of SetPermissions: the entry is rebuilt and loses its memory type
SetPermissions_ClearsMemoryType(entry, access_type) ==
    set_memory_type(
        set_executable(set_writable(set_readable(entry,
            contains(access_type, READ)),
            contains(access_type, WRITE)),
            contains(access_type, EXECUTE)),
        0)

\* the three permission setters of both branches
SetPermissions(entry, access_type) ==
    set_executable(set_writable(set_readable(entry,
        contains(access_type, READ)),
        contains(access_type, WRITE)),
        contains(access_type, EXECUTE))

\* !is_large_page_aligned() && !is_base_page_aligned() is the rejection
ModifyAligned(guest_pa) ==
    ~(~is_large_page_aligned(guest_pa) /\ ~is_base_page_aligned(guest_pa))

modify_page_permissions(e, guest_pa, access_type, pt_table_index) ==
    IF ~ValidPtIndex(pt_table_index) THEN [ept |-> e, res |-> "InvalidPtIndex"]
    ELSE IF ~ModifyAligned(guest_pa) THEN [ept |-> e, res |-> "UnalignedAddressError"]
    ELSE LET i == pdpt_index(guest_pa)
             j == pd_index(guest_pa)
             t == pt_index(guest_pa)
         IN IF e.pd[i][j].large
            THEN [ept |-> [e EXCEPT !.pd[i][j] = SetPermissions(@, access_type)],
                  res |-> "Ok"]
            ELSE [ept |-> [e EXCEPT !.pt[pt_table_index][t] =
                                        SetPermissions(@, access_type)],
                  res |-> "Ok"]

\* mutant of RemapAligned: only the guest address is checked
RemapAligned_GuestOnly(guest_pa, host_pa) == is_base_page_aligned(guest_pa)

\* !guest_pa.is_base_page_aligned() || !host_pa.is_base_page_aligned() is the rejection
RemapAligned(guest_pa, host_pa) ==
    ~(~is_base_page_aligned(guest_pa) \/ ~is_base_page_aligned(host_pa))

\* mutant of RemapPte: the address is stored without the shift
RemapPte_Unshifted(pte, host_pa) == set_pfn(pte, host_pa)

\* pte.set_pfn(host_pa >> BASE_PAGE_SHIFT)
RemapPte(pte, host_pa) == set_pfn(pte, Shr(host_pa, BASE_PAGE_SHIFT))

remap_gpa_to_hpa(e, guest_pa, host_pa, pt_table_index) ==
    IF ~ValidPtIndex(pt_table_index) THEN [ept |-> e, res |-> "InvalidPtIndex"]
    ELSE IF ~RemapAligned(guest_pa, host_pa)
         THEN [ept |-> e, res |-> "UnalignedAddressError"]
    ELSE LET i == pdpt_index(guest_pa)
             j == pd_index(guest_pa)
             t == pt_index(guest_pa)
         IN IF e.pd[i][j].large THEN [ept |-> e, res |-> "LargePageRemapError"]
            ELSE [ept |-> [e EXCEPT !.pt[pt_table_index][t] = RemapPte(@, host_pa)],
                  res |-> "Ok"]

----------------------------------------------------------------------------
(* The translation the processor performs through the Ept (the hierarchy the
   pointer entries of build_identity and split_2mb_to_4kb set up) *)

\* the PD / PT tables of this Ept a pointer entry's frame number designates
PdAt(base, pfn) == {i \in TableIdx : Shr(PdAddr(base, i), BASE_PAGE_SHIFT) = pfn}
PtAt(base, pfn) == {k \in PtTableIdx : Shr(PtAddr(base, k), BASE_PAGE_SHIFT) = pfn}

Present(entry) == entry.readable \/ entry.writable \/ entry.executable

\* the leaf entry that governs guest address g: PML4 entry 0, the PDPT entry,
\* the PD entry, and, unless that one is large, the PT entry it points to
Governing(e, base, g) ==
    LET pml4e == e.pml4[0]
        pdpte == e.pdpt[pdpt_index(g)]
        pds == PdAt(base, pdpte.pfn)
    IN IF ~Present(pml4e) \/ pml4e.pfn # Shr(PdptAddr(base), BASE_PAGE_SHIFT)
          \/ ~Present(pdpte) \/ pds = {}
       THEN [level |-> "fault", entry |-> ZeroEntry, pde |-> ZeroEntry]
       ELSE LET pde == e.pd[CHOOSE i \in pds : TRUE][pd_index(g)]
                pts == PtAt(base, pde.pfn)
            IN IF pde.large THEN [level |-> "pd", entry |-> pde, pde |-> pde]
               ELSE IF ~Present(pde) \/ pts = {}
               THEN [level |-> "fault", entry |-> ZeroEntry, pde |-> pde]
               ELSE [level |-> "pt",
                     entry |-> e.pt[CHOOSE k \in pts : TRUE][pt_index(g)],
                     pde |-> pde]

\* what the guest sees of the 4KB page at g: the frame it is backed by, the
\* memory type of the leaf, and the permissions granted along the walk
Effective(e, base, g) ==
    LET gov == Governing(e, base, g) IN
    IF gov.level = "fault"
    THEN [frame |-> 0, memory_type |-> 0, readable |-> FALSE,
          writable |-> FALSE, executable |-> FALSE]
    ELSE [frame |-> IF gov.level = "pd"
                    THEN (gov.entry.pfn - (gov.entry.pfn % ENTRIES)) + pt_index(g)
                    ELSE gov.entry.pfn,
          memory_type |-> gov.entry.memory_type,
          readable |-> gov.pde.readable /\ gov.entry.readable,
          writable |-> gov.pde.writable /\ gov.entry.writable,
          executable |-> gov.pde.executable /\ gov.entry.executable]

\* the page-aligned guest addresses of the mapped range
MappedPages == {p * BASE_PAGE_SIZE : p \in 0 .. ENTRIES * ENTRIES * ENTRIES - 1}

\* start of the 2MB region an address lies in
RegionBase(g) == g - (g % LARGE_PAGE_SIZE)
RegionPages(g) == {RegionBase(g) + t * BASE_PAGE_SIZE : t \in TableIdx}

----------------------------------------------------------------------------
(* Ept::create_eptp_with_wb_and_4lvl_walk *)

RECURSIVE BitOr(_, _)
\* a | b on naturals
BitOr(a, b) ==
    IF a = 0 THEN b
    ELSE IF b = 0 THEN a
    ELSE (IF a % 2 = 1 \/ b % 2 = 1 THEN 1 ELSE 0) + 2 * BitOr(a \div 2, b \div 2)

\* 3 << 3
EPT_PAGE_WALK_LENGTH_4 == 3 * 2 ^ 3
\* MemoryType::WriteBack as u64
EPT_MEMORY_TYPE_WB == WriteBack

\* mutant of create_eptp_with_wb_and_4lvl_walk: the check is trailing_zeros() >= 11
create_eptp_AlignedTo2KB(base) ==
    LET ept_pml4_base_addr == Pml4Addr(base) IN
    IF ept_pml4_base_addr % (2 ^ 11) = 0
    THEN [res |-> "Ok",
          eptp |-> BitOr(BitOr(ept_pml4_base_addr, EPT_PAGE_WALK_LENGTH_4),
                         EPT_MEMORY_TYPE_WB)]
    ELSE [res |-> "InvalidEptPml4BaseAddress", eptp |-> 0]

\* ept_pml4_base_addr.trailing_zeros() >= 12
create_eptp_with_wb_and_4lvl_walk(base) ==
    LET ept_pml4_base_addr == Pml4Addr(base) IN
    IF ept_pml4_base_addr % (2 ^ 12) = 0
    THEN [res |-> "Ok",
          eptp |-> BitOr(BitOr(ept_pml4_base_addr, EPT_PAGE_WALK_LENGTH_4),
                         EPT_MEMORY_TYPE_WB)]
    ELSE [res |-> "InvalidEptPml4BaseAddress", eptp |-> 0]

----------------------------------------------------------------------------
(* Inputs *)

\* where box_zeroed places the primary Ept; the secondary one follows it
EptBases == {256 * BASE_PAGE_SIZE}
EptSize == (2 + ENTRIES + PT_TABLES) * BASE_PAGE_SIZE
SecondaryBase(base) == base + EptSize

\* guest addresses passed to the calls: the first two pages of the first 2MB
\* (backed by pt[0]), of the next 2MB region, of the first region of the second
\* PD and of the last region of the range, an address inside a page (0x1001)
\* and one inside a page of a later region
ArgRegions == {0, 1, ENTRIES, ENTRIES * ENTRIES - 1}
GuestAddrs ==
    {r * LARGE_PAGE_SIZE + p * BASE_PAGE_SIZE : r \in ArgRegions, p \in {0, 1}}
        \cup {BASE_PAGE_SIZE + 1, LARGE_PAGE_SIZE + BASE_PAGE_SIZE + 1}

\* host frames outside the guest range (a hook's shadow page), one unaligned
HostAddrs == {MAPPED_SIZE + BASE_PAGE_SIZE, MAPPED_SIZE + BASE_PAGE_SIZE + 1}

\* pt_table_index values: the reserved 0, the valid ones, and one past the end
PtIndexArgs == 0 .. PT_TABLES

\* AccessType values passed to modify_page_permissions
AccessTypes == {0, READ, READ + WRITE, EXECUTE}

\* resolver of a machine whose memory below `limit` is uncacheable and the rest
\* write-back, and that cannot classify the ranges in `bad`
MtrrLayout(limit, bad) ==
    [r \in Ranges |->
        IF r \in bad THEN {}
        ELSE IF r[2] <= limit THEN {Uncacheable} ELSE {WriteBack}]

\* the resolvers the call sequences are explored with
MtrrSample ==
    {MtrrLayout(2 * LARGE_PAGE_SIZE, {}),
     MtrrLayout(BASE_PAGE_SIZE, {<<LARGE_PAGE_SIZE, 2 * LARGE_PAGE_SIZE>>})}

NoCall ==
    [op |-> "none", guest_pa |-> 0, host_pa |-> 0, access_type |-> 0,
     pt_table_index |-> 0, res |-> "none"]

\* no PhysicalAddress constructed, nothing returned
NoAddress == [from |-> "none", value |-> {}]
NoReturn == [op |-> "none"]

Call(op, guest_pa, host_pa, access_type, pt_table_index, res) ==
    [op |-> op, guest_pa |-> guest_pa, host_pa |-> host_pa,
     access_type |-> access_type, pt_table_index |-> pt_table_index, res |-> res]

----------------------------------------------------------------------------
(* State machine of the Ept calls (driver main, then the hook set-up calls) *)

\* the processors are not virtualized yet
VmOff ==
    /\ activeEptp = [c \in Cpus |-> 0]
    /\ pc = [c \in Cpus |-> "off"]
    /\ qual = [c \in Cpus |-> [readable |-> FALSE, writable |-> FALSE,
                               executable |-> FALSE]]
    /\ vmwrites = [c \in Cpus |-> 0]
    /\ invepts = [c \in Cpus |-> 0]
    /\ exitType = [c \in Cpus |-> "none"]
    /\ shared_data = [primary_eptp |-> 0, secondary_eptp |-> 0]
    /\ entryEptp = [c \in Cpus |-> 0]
    /\ lastSwapRW = [c \in Cpus |-> FALSE]
    /\ access = [c \in Cpus |-> "none"]

\* no unmap_2mb, PhysicalAddress or create_eptp call is under study
FnOff ==
    /\ entryCell = ZeroEntry
    /\ unmaps = 0
    /\ physAddr = NoAddress
    /\ arg = {}
    /\ ret = NoReturn

Init ==
    /\ ept = ZeroEpt
    /\ eptBase \in EptBases
    /\ mtrr \in MtrrSample
    /\ phase = "zeroed"
    /\ nOps = 0
    /\ last = NoCall
    /\ VmOff
    /\ FnOff

\* main: primary_ept.build_identity(), abort on Err
BuildIdentity ==
    /\ phase = "zeroed"
    /\ LET r == build_identity(ept, mtrr, eptBase) IN
        /\ ept' = r.ept
        /\ phase' = IF r.res = "Ok" THEN "built" ELSE "aborted"
        /\ last' = Call("build_identity", 0, 0, 0, 0, r.res)
    /\ UNCHANGED <<eptBase, mtrr, nOps>>
    /\ UNCHANGED vmVars
    /\ UNCHANGED fnVars

Split2mbTo4kb ==
    /\ phase = "built"
    /\ nOps < MaxOps
    /\ \E guest_pa \in GuestAddrs, pt_table_index \in PtIndexArgs :
        LET r == split_2mb_to_4kb(ept, eptBase, guest_pa, pt_table_index) IN
        /\ ept' = r.ept
        /\ last' = Call("split_2mb_to_4kb", guest_pa, 0, 0, pt_table_index, r.res)
    /\ nOps' = nOps + 1
    /\ UNCHANGED <<eptBase, mtrr, phase>>
    /\ UNCHANGED vmVars
    /\ UNCHANGED fnVars

ModifyPagePermissions ==
    /\ phase = "built"
    /\ nOps < MaxOps
    /\ \E guest_pa \in GuestAddrs, access_type \in AccessTypes,
          pt_table_index \in PtIndexArgs :
        LET r == modify_page_permissions(ept, guest_pa, access_type, pt_table_index) IN
        /\ ept' = r.ept
        /\ last' = Call("modify_page_permissions", guest_pa, 0, access_type,
                        pt_table_index, r.res)
    /\ nOps' = nOps + 1
    /\ UNCHANGED <<eptBase, mtrr, phase>>
    /\ UNCHANGED vmVars
    /\ UNCHANGED fnVars

RemapGpaToHpa ==
    /\ phase = "built"
    /\ nOps < MaxOps
    /\ \E guest_pa \in GuestAddrs, host_pa \in HostAddrs,
          pt_table_index \in PtIndexArgs :
        LET r == remap_gpa_to_hpa(ept, guest_pa, host_pa, pt_table_index) IN
        /\ ept' = r.ept
        /\ last' = Call("remap_gpa_to_hpa", guest_pa, host_pa, 0,
                        pt_table_index, r.res)
    /\ nOps' = nOps + 1
    /\ UNCHANGED <<eptBase, mtrr, phase>>
    /\ UNCHANGED vmVars
    /\ UNCHANGED fnVars

Next ==
    \/ BuildIdentity
    \/ Split2mbTo4kb
    \/ ModifyPagePermissions
    \/ RemapGpaToHpa

Spec == Init /\ [][Next]_vars

----------------------------------------------------------------------------
(* State machine of the EPT VM exits: each logical processor runs the guest,
   takes an exit, and runs the handler statement by statement *)

Qualifications == [readable : BOOLEAN, writable : BOOLEAN, executable : BOOLEAN]

\* mutant of IsReadWrite: the executable bit is not tested
IsReadWrite_IgnoresExecutable(q) == q.readable /\ q.writable

\* readable && writable && !executable
IsReadWrite(q) == q.readable /\ q.writable /\ ~q.executable
\* !readable && !writable && executable
IsExecuteOnly(q) == ~q.readable /\ ~q.writable /\ q.executable

\* both Epts built, the EPTPs encoded, every processor launched on the primary
InitVm ==
    /\ eptBase \in EptBases
    /\ mtrr = MtrrLayout(2 * LARGE_PAGE_SIZE, {})
    /\ ept = build_identity(ZeroEpt, mtrr, eptBase).ept
    /\ phase = "built"
    /\ nOps = 0
    /\ last = Call("build_identity", 0, 0, 0, 0, "Ok")
    /\ shared_data =
          [primary_eptp |-> create_eptp_with_wb_and_4lvl_walk(eptBase).eptp,
           secondary_eptp |->
               create_eptp_with_wb_and_4lvl_walk(SecondaryBase(eptBase)).eptp]
    /\ activeEptp = [c \in Cpus |-> shared_data.primary_eptp]
    /\ entryEptp = [c \in Cpus |-> shared_data.primary_eptp]
    /\ pc = [c \in Cpus |-> "guest"]
    /\ qual = [c \in Cpus |-> [readable |-> FALSE, writable |-> FALSE,
                               executable |-> FALSE]]
    /\ vmwrites = [c \in Cpus |-> 0]
    /\ invepts = [c \in Cpus |-> 0]
    /\ exitType = [c \in Cpus |-> "none"]
    /\ lastSwapRW = [c \in Cpus |-> FALSE]
    /\ access = [c \in Cpus |-> "none"]
    /\ FnOff

\* the processor delivers an EPT-violation exit; the handler reads and decodes
\* the exit qualification
EptViolationExit(c) ==
    /\ pc[c] = "guest"
    /\ \E q \in Qualifications : qual' = [qual EXCEPT ![c] = q]
    /\ pc' = [pc EXCEPT ![c] = "check_rw"]
    /\ vmwrites' = [vmwrites EXCEPT ![c] = 0]
    /\ invepts' = [invepts EXCEPT ![c] = 0]
    /\ exitType' = [exitType EXCEPT ![c] = "none"]
    /\ entryEptp' = [entryEptp EXCEPT ![c] = activeEptp[c]]
    /\ lastSwapRW' = [lastSwapRW EXCEPT ![c] =
          IF IsReadWrite(qual'[c]) THEN TRUE
          ELSE IF IsExecuteOnly(qual'[c]) THEN FALSE
          ELSE @]
    /\ UNCHANGED <<activeEptp, shared_data, access>>
    /\ UNCHANGED eptVars
    /\ UNCHANGED fnVars

\* if readable && writable && !executable
CheckReadWrite(c) ==
    /\ pc[c] = "check_rw"
    /\ pc' = [pc EXCEPT ![c] = IF IsReadWrite(qual[c]) THEN "write_secondary"
                                                        ELSE "check_x"]
    /\ UNCHANGED <<activeEptp, qual, vmwrites, invepts, exitType, shared_data, entryEptp,
                 lastSwapRW, access>>
    /\ UNCHANGED eptVars
    /\ UNCHANGED fnVars

\* mutant of WriteSecondary: the active EPTP is toggled, not set
WriteSecondary_Toggles(c) ==
    /\ pc[c] = "write_secondary"
    /\ activeEptp' = [activeEptp EXCEPT ![c] =
          IF @ = shared_data.secondary_eptp THEN shared_data.primary_eptp
          ELSE shared_data.secondary_eptp]
    /\ vmwrites' = [vmwrites EXCEPT ![c] = @ + 1]
    /\ pc' = [pc EXCEPT ![c] = "invept_secondary"]
    /\ UNCHANGED <<qual, invepts, exitType, shared_data, entryEptp, lastSwapRW, access>>
    /\ UNCHANGED eptVars
    /\ UNCHANGED fnVars

\* mutant of WriteSecondary: the primary EPTP is loaded on the read/write pattern
WriteSecondary_LoadsPrimary(c) ==
    /\ pc[c] = "write_secondary"
    /\ activeEptp' = [activeEptp EXCEPT ![c] = shared_data.primary_eptp]
    /\ vmwrites' = [vmwrites EXCEPT ![c] = @ + 1]
    /\ pc' = [pc EXCEPT ![c] = "invept_secondary"]
    /\ UNCHANGED <<qual, invepts, exitType, shared_data, entryEptp,
                 lastSwapRW, access>>
    /\ UNCHANGED eptVars
    /\ UNCHANGED fnVars

\* vmwrite(vmcs::control::EPTP_FULL, secondary_eptp)
WriteSecondary(c) ==
    /\ pc[c] = "write_secondary"
    /\ activeEptp' = [activeEptp EXCEPT ![c] = shared_data.secondary_eptp]
    /\ vmwrites' = [vmwrites EXCEPT ![c] = @ + 1]
    /\ pc' = [pc EXCEPT ![c] = "invept_secondary"]
    /\ UNCHANGED <<qual, invepts, exitType, shared_data, entryEptp,
                 lastSwapRW, access>>
    /\ UNCHANGED eptVars
    /\ UNCHANGED fnVars

\* mutant of InveptSecondary: the invalidation after the write is missing
InveptSecondary_Skipped(c) ==
    /\ pc[c] = "invept_secondary"
    /\ pc' = [pc EXCEPT ![c] = "check_x"]
    /\ UNCHANGED <<activeEptp, qual, vmwrites, invepts, exitType, shared_data,
                   entryEptp, lastSwapRW, access>>
    /\ UNCHANGED eptVars
    /\ UNCHANGED fnVars

\* invept_all_contexts()
InveptSecondary(c) ==
    /\ pc[c] = "invept_secondary"
    /\ invepts' = [invepts EXCEPT ![c] = @ + 1]
    /\ pc' = [pc EXCEPT ![c] = "check_x"]
    /\ UNCHANGED <<activeEptp, qual, vmwrites, exitType, shared_data, entryEptp,
                 lastSwapRW, access>>
    /\ UNCHANGED eptVars
    /\ UNCHANGED fnVars

\* if !readable && !writable && executable
CheckExecute(c) ==
    /\ pc[c] = "check_x"
    /\ pc' = [pc EXCEPT ![c] = IF IsExecuteOnly(qual[c]) THEN "write_primary"
                                                          ELSE "return"]
    /\ UNCHANGED <<activeEptp, qual, vmwrites, invepts, exitType, shared_data, entryEptp,
                 lastSwapRW, access>>
    /\ UNCHANGED eptVars
    /\ UNCHANGED fnVars

\* mutant of WritePrimary: the primary EPTP is loaded on every processor
WritePrimary_EveryProcessor(c) ==
    /\ pc[c] = "write_primary"
    /\ activeEptp' = [d \in Cpus |-> shared_data.primary_eptp]
    /\ vmwrites' = [vmwrites EXCEPT ![c] = @ + 1]
    /\ pc' = [pc EXCEPT ![c] = "invept_primary"]
    /\ UNCHANGED <<qual, invepts, exitType, shared_data, entryEptp,
                   lastSwapRW, access>>
    /\ UNCHANGED eptVars
    /\ UNCHANGED fnVars

\* vmwrite(vmcs::control::EPTP_FULL, primary_eptp)
WritePrimary(c) ==
    /\ pc[c] = "write_primary"
    /\ activeEptp' = [activeEptp EXCEPT ![c] = shared_data.primary_eptp]
    /\ vmwrites' = [vmwrites EXCEPT ![c] = @ + 1]
    /\ pc' = [pc EXCEPT ![c] = "invept_primary"]
    /\ UNCHANGED <<qual, invepts, exitType, shared_data, entryEptp,
                 lastSwapRW, access>>
    /\ UNCHANGED eptVars
    /\ UNCHANGED fnVars

\* invept_all_contexts()
InveptPrimary(c) ==
    /\ pc[c] = "invept_primary"
    /\ invepts' = [invepts EXCEPT ![c] = @ + 1]
    /\ pc' = [pc EXCEPT ![c] = "return"]
    /\ UNCHANGED <<activeEptp, qual, vmwrites, exitType, shared_data, entryEptp,
                 lastSwapRW, access>>
    /\ UNCHANGED eptVars
    /\ UNCHANGED fnVars

\* mutant of ReturnContinue: the handler returns ExitType::IncrementRIP
ReturnContinue_IncrementsRip(c) ==
    /\ pc[c] = "return"
    /\ exitType' = [exitType EXCEPT ![c] = "IncrementRIP"]
    /\ pc' = [pc EXCEPT ![c] = "guest"]
    /\ UNCHANGED <<activeEptp, qual, vmwrites, invepts, shared_data, entryEptp,
                   lastSwapRW, access>>
    /\ UNCHANGED eptVars
    /\ UNCHANGED fnVars

\* ExitType::Continue: back to the guest, RIP not advanced
ReturnContinue(c) ==
    /\ pc[c] = "return"
    /\ exitType' = [exitType EXCEPT ![c] = "Continue"]
    /\ pc' = [pc EXCEPT ![c] = "guest"]
    /\ UNCHANGED <<activeEptp, qual, vmwrites, invepts, shared_data, entryEptp,
                 lastSwapRW, access>>
    /\ UNCHANGED eptVars
    /\ UNCHANGED fnVars

\* handle_ept_misconfiguration: the exit is taken and the handler reaches int3
EptMisconfigurationExit(c) ==
    /\ pc[c] = "guest"
    /\ pc' = [pc EXCEPT ![c] = "int3"]
    /\ vmwrites' = [vmwrites EXCEPT ![c] = 0]
    /\ invepts' = [invepts EXCEPT ![c] = 0]
    /\ exitType' = [exitType EXCEPT ![c] = "none"]
    /\ entryEptp' = [entryEptp EXCEPT ![c] = activeEptp[c]]
    /\ UNCHANGED <<activeEptp, qual, shared_data, lastSwapRW, access>>
    /\ UNCHANGED eptVars
    /\ UNCHANGED fnVars

\* mutant of ReturnExitHypervisor: the handler returns Continue and the guest
\* is resumed
ReturnExitHypervisor_Resumes(c) ==
    /\ pc[c] = "int3"
    /\ exitType' = [exitType EXCEPT ![c] = "Continue"]
    /\ pc' = [pc EXCEPT ![c] = "guest"]
    /\ UNCHANGED <<activeEptp, qual, vmwrites, invepts, shared_data, entryEptp,
                   lastSwapRW, access>>
    /\ UNCHANGED eptVars
    /\ UNCHANGED fnVars

\* return ExitType::ExitHypervisor
ReturnExitHypervisor(c) ==
    /\ pc[c] = "int3"
    /\ exitType' = [exitType EXCEPT ![c] = "ExitHypervisor"]
    /\ pc' = [pc EXCEPT ![c] = "exited"]
    /\ UNCHANGED <<activeEptp, qual, vmwrites, invepts, shared_data, entryEptp,
                 lastSwapRW, access>>
    /\ UNCHANGED eptVars
    /\ UNCHANGED fnVars

NextVm ==
    \E c \in Cpus :
        \/ EptViolationExit(c)
        \/ CheckReadWrite(c)
        \/ WriteSecondary(c)
        \/ InveptSecondary(c)
        \/ CheckExecute(c)
        \/ WritePrimary(c)
        \/ InveptPrimary(c)
        \/ ReturnContinue(c)
        \/ EptMisconfigurationExit(c)
        \/ ReturnExitHypervisor(c)

SpecVm == InitVm /\ [][NextVm]_vars

----------------------------------------------------------------------------
(* build_identity alone, under every resolver over the queried ranges *)

InitBuild ==
    /\ ept = ZeroEpt
    /\ eptBase \in EptBases
    /\ mtrr \in [Ranges -> OptMemType]
    /\ phase = "zeroed"
    /\ nOps = 0
    /\ last = NoCall
    /\ VmOff
    /\ FnOff

SpecBuild == InitBuild /\ [][BuildIdentity]_vars

----------------------------------------------------------------------------
(* unmap_2mb alone, on every Entry value of a sample of the bit fields *)

\* consecutive unmap_2mb calls explored on one entry
MaxUnmaps == 2

\* frame numbers of the sampled entries: none, a 2MB region, a page table
EntryPfns ==
    {0, Shr(LARGE_PAGE_SIZE, BASE_PAGE_SHIFT),
     Shr(PtAddr(256 * BASE_PAGE_SIZE, 1), BASE_PAGE_SHIFT)}

Entries ==
    [readable : BOOLEAN, writable : BOOLEAN, executable : BOOLEAN,
     memory_type : MemTypes, large : BOOLEAN, pfn : EntryPfns]

InitUnmap ==
    /\ ept = ZeroEpt
    /\ eptBase \in EptBases
    /\ mtrr = MtrrLayout(2 * LARGE_PAGE_SIZE, {})
    /\ phase = "zeroed"
    /\ nOps = 0
    /\ last = NoCall
    /\ VmOff
    /\ entryCell \in Entries
    /\ unmaps = 0
    /\ physAddr = NoAddress
    /\ arg = {}
    /\ ret = NoReturn

\* Self::unmap_2mb(entry)
Unmap2mb ==
    /\ unmaps < MaxUnmaps
    /\ entryCell' = unmap_2mb(entryCell)
    /\ unmaps' = unmaps + 1
    /\ UNCHANGED <<physAddr, arg, ret>>
    /\ UNCHANGED eptVars
    /\ UNCHANGED vmVars

SpecUnmap == InitUnmap /\ [][Unmap2mb]_vars

----------------------------------------------------------------------------
(* create_eptp_with_wb_and_4lvl_walk alone, on aligned and unaligned bases *)

\* highest 4KB page number an Ept is placed at
MaxBasePage == 7

\* offsets inside a page: none, each single low bit, all twelve low bits
LowOffsets == {0, BASE_PAGE_SIZE - 1} \cup {2 ^ b : b \in 0 .. BASE_PAGE_SHIFT - 1}

EptpBases == {a * BASE_PAGE_SIZE + off : a \in 0 .. MaxBasePage, off \in LowOffsets}

InitEptp ==
    /\ ept = ZeroEpt
    /\ eptBase \in EptpBases
    /\ mtrr = MtrrLayout(2 * LARGE_PAGE_SIZE, {})
    /\ phase = "zeroed"
    /\ nOps = 0
    /\ last = NoCall
    /\ VmOff
    /\ FnOff

\* ept.create_eptp_with_wb_and_4lvl_walk()
CreateEptp ==
    /\ ret = NoReturn
    /\ LET r == create_eptp_with_wb_and_4lvl_walk(eptBase) IN
        ret' = [op |-> "create_eptp_with_wb_and_4lvl_walk",
                res |-> r.res, eptp |-> r.eptp]
    /\ UNCHANGED <<entryCell, unmaps, physAddr, arg>>
    /\ UNCHANGED eptVars
    /\ UNCHANGED vmVars

SpecEptp == InitEptp /\ [][CreateEptp]_vars

----------------------------------------------------------------------------
(* PhysicalAddress: a u64 is the set of the positions of its one bits, so the
   64-bit width is kept exactly *)

U64_BITS == 64
BitPositions == 0 .. U64_BITS - 1

\* x << n and x >> n on u64: the bits shifted out are lost
Shl64(x, n) == {b + n : b \in {c \in x : c + n < U64_BITS}}
Shr64(x, n) == {b - n : b \in {c \in x : c >= n}}

\* Self(PAddr::from(pa))
PhysicalAddress_from_pa(x) == x

\* mutant of PhysicalAddress_from_pfn: the frame number is stored unshifted
PhysicalAddress_from_pfn_Unshifted(x) == x

\* Self(PAddr::from(pfn << BASE_PAGE_SHIFT))
PhysicalAddress_from_pfn(x) == Shl64(x, BASE_PAGE_SHIFT)

\* self.0.as_u64() >> BASE_PAGE_SHIFT
PhysicalAddress_pfn(self) == Shr64(self, BASE_PAGE_SHIFT)

\* self.0.as_u64()
PhysicalAddress_pa(self) == self

\* one bits of the sampled u64 values
MaxBitsSet == 2

RECURSIVE WordsUpTo(_)
\* the u64 values with at most n one bits
WordsUpTo(n) ==
    IF n = 0 THEN {{}}
    ELSE LET fewer == WordsUpTo(n - 1)
         IN fewer \cup {w \cup {b} : w \in fewer, b \in BitPositions}

\* the sampled u64 values: at most MaxBitsSet one bits anywhere, and u64::MAX
Words == WordsUpTo(MaxBitsSet) \cup {BitPositions}

InitAddr ==
    /\ ept = ZeroEpt
    /\ eptBase \in EptBases
    /\ mtrr = MtrrLayout(2 * LARGE_PAGE_SIZE, {})
    /\ phase = "zeroed"
    /\ nOps = 0
    /\ last = NoCall
    /\ VmOff
    /\ entryCell = ZeroEntry
    /\ unmaps = 0
    /\ physAddr = NoAddress
    /\ arg \in Words
    /\ ret = NoReturn

\* PhysicalAddress::from_pa(arg)
FromPa ==
    /\ physAddr = NoAddress
    /\ physAddr' = [from |-> "from_pa", value |-> PhysicalAddress_from_pa(arg)]
    /\ UNCHANGED <<entryCell, unmaps, arg, ret>>
    /\ UNCHANGED eptVars
    /\ UNCHANGED vmVars

\* PhysicalAddress::from_pfn(arg)
FromPfn ==
    /\ physAddr = NoAddress
    /\ physAddr' = [from |-> "from_pfn", value |-> PhysicalAddress_from_pfn(arg)]
    /\ UNCHANGED <<entryCell, unmaps, arg, ret>>
    /\ UNCHANGED eptVars
    /\ UNCHANGED vmVars

\* physAddr.pa()
ReadPa ==
    /\ physAddr # NoAddress
    /\ ret = NoReturn
    /\ ret' = [op |-> "pa", value |-> PhysicalAddress_pa(physAddr.value)]
    /\ UNCHANGED <<entryCell, unmaps, physAddr, arg>>
    /\ UNCHANGED eptVars
    /\ UNCHANGED vmVars

\* physAddr.pfn()
ReadPfn ==
    /\ physAddr # NoAddress
    /\ ret = NoReturn
    /\ ret' = [op |-> "pfn", value |-> PhysicalAddress_pfn(physAddr.value)]
    /\ UNCHANGED <<entryCell, unmaps, physAddr, arg>>
    /\ UNCHANGED eptVars
    /\ UNCHANGED vmVars

NextAddr == FromPa \/ FromPfn \/ ReadPa \/ ReadPfn

SpecAddr == InitAddr /\ [][NextAddr]_vars

----------------------------------------------------------------------------
(* The hooked page: guest accesses to one page that the primary Ept maps
   execute-only and the secondary Ept maps read/write-only.  The instruction
   is re-executed after every exit (ExitType::Continue) until the active
   table permits its access. *)

Accesses == {"read", "write", "read_write", "execute"}
DataAccesses == {"read", "write", "read_write"}

\* EptViolationExitQualification::from_exit_qualification: the (readable,
\* writable, executable) attributes of the faulting access
from_exit_qualification(a) ==
    [readable |-> a \in {"read", "read_write"},
     writable |-> a \in {"write", "read_write"},
     executable |-> a = "execute"]

\* what the table behind an EPTP permits on the hooked page
HookedPagePermits(eptp, a) ==
    IF eptp = shared_data.primary_eptp THEN a = "execute"
    ELSE a \in DataAccesses

\* the guest reaches an instruction that accesses the hooked page
GuestAccess(c) ==
    /\ pc[c] = "guest"
    /\ access[c] = "none"
    /\ \E a \in Accesses : access' = [access EXCEPT ![c] = a]
    /\ UNCHANGED <<activeEptp, pc, qual, vmwrites, invepts, exitType, shared_data,
                   entryEptp, lastSwapRW>>
    /\ UNCHANGED eptVars
    /\ UNCHANGED fnVars

\* the active table permits the access: the instruction completes
AccessServiced(c) ==
    /\ pc[c] = "guest"
    /\ access[c] # "none"
    /\ HookedPagePermits(activeEptp[c], access[c])
    /\ access' = [access EXCEPT ![c] = "none"]
    /\ UNCHANGED <<activeEptp, pc, qual, vmwrites, invepts, exitType, shared_data,
                   entryEptp, lastSwapRW>>
    /\ UNCHANGED eptVars
    /\ UNCHANGED fnVars

\* the active table does not permit it: EPT-violation exit, the handler reads
\* and decodes the exit qualification
HookViolationExit(c) ==
    /\ pc[c] = "guest"
    /\ access[c] # "none"
    /\ ~HookedPagePermits(activeEptp[c], access[c])
    /\ qual' = [qual EXCEPT ![c] = from_exit_qualification(access[c])]
    /\ pc' = [pc EXCEPT ![c] = "check_rw"]
    /\ vmwrites' = [vmwrites EXCEPT ![c] = 0]
    /\ invepts' = [invepts EXCEPT ![c] = 0]
    /\ exitType' = [exitType EXCEPT ![c] = "none"]
    /\ entryEptp' = [entryEptp EXCEPT ![c] = activeEptp[c]]
    /\ lastSwapRW' = [lastSwapRW EXCEPT ![c] =
          IF IsReadWrite(qual'[c]) THEN TRUE
          ELSE IF IsExecuteOnly(qual'[c]) THEN FALSE
          ELSE @]
    /\ UNCHANGED <<activeEptp, shared_data, access>>
    /\ UNCHANGED eptVars
    /\ UNCHANGED fnVars

NextHook ==
    \E c \in Cpus :
        \/ GuestAccess(c)
        \/ AccessServiced(c)
        \/ HookViolationExit(c)
        \/ CheckReadWrite(c)
        \/ WriteSecondary(c)
        \/ InveptSecondary(c)
        \/ CheckExecute(c)
        \/ WritePrimary(c)
        \/ InveptPrimary(c)
        \/ ReturnContinue(c)

SpecHook == InitVm /\ [][NextHook]_vars

----------------------------------------------------------------------------
(* Properties *)

BuildSucceeded == last.op = "build_identity" /\ last.res = "Ok"

\* C1: after build_identity succeeds on a zeroed Ept, every page-aligned guest
\* address g of the mapped range is governed by a 4KB leaf of pt[0] when it lies
\* in the first 2MB and by a 2MB leaf otherwise; when g is aligned to that
\* page, the leaf has pfn = g >> 12 and readable = writable = executable = true
C1_BuildIdentityIsIdentity ==
    BuildSucceeded =>
        \A g \in MappedPages :
            LET gov == Governing(ept, eptBase, g) IN
            /\ gov.level = (IF g < LARGE_PAGE_SIZE THEN "pt" ELSE "pd")
            /\ (gov.level = "pt" \/ is_large_page_aligned(g)) =>
                  /\ gov.entry.pfn = Shr(g, BASE_PAGE_SHIFT)
                  /\ gov.entry.readable
                  /\ gov.entry.writable
                  /\ gov.entry.executable

\* C1 witness: a successful build whose last large leaf, in the last PD table,
\* maps the last 2MB of the range
C1_Witness ==
    /\ BuildSucceeded
    /\ ept.pd[ENTRIES - 1][ENTRIES - 1].large
    /\ ept.pd[ENTRIES - 1][ENTRIES - 1].pfn =
          Shr(MAPPED_SIZE - LARGE_PAGE_SIZE, BASE_PAGE_SHIFT)
    /\ ept.pt[0][ENTRIES - 1].pfn = ENTRIES - 1

\* processor c is back in the guest after a run of handle_ept_violation
ViolationHandled(c) == pc[c] = "guest" /\ exitType[c] = "Continue"

\* C2: after handle_ept_violation on a qualification decoding to (readable,
\* writable, not executable) the active EPTP is the secondary EPTP and exactly
\* one cache invalidation was issued; on (not readable, not writable,
\* executable) it is the primary EPTP, with exactly one invalidation; the two
\* EPTP values differ, so the first pattern leaves Primary-active for
\* Secondary-active and the second goes back
C2_SwapOnViolationPattern ==
    /\ shared_data.primary_eptp # shared_data.secondary_eptp
    /\ \A c \in Cpus :
        ViolationHandled(c) =>
            /\ IsReadWrite(qual[c]) =>
                  /\ activeEptp[c] = shared_data.secondary_eptp
                  /\ invepts[c] = 1
            /\ IsExecuteOnly(qual[c]) =>
                  /\ activeEptp[c] = shared_data.primary_eptp
                  /\ invepts[c] = 1

\* C2 witness: a processor that took the execute-only exit while the secondary
\* EPTP was active is back in the guest on the primary EPTP
C2_Witness ==
    \E c \in Cpus :
        /\ ViolationHandled(c)
        /\ IsExecuteOnly(qual[c])
        /\ entryEptp[c] = shared_data.secondary_eptp
        /\ activeEptp[c] = shared_data.primary_eptp
        /\ invepts[c] = 1

\* the step is a call of the operation that returned Ok
SplitOk == last'.op = "split_2mb_to_4kb" /\ last'.res = "Ok"
ModifyOk == last'.op = "modify_page_permissions" /\ last'.res = "Ok"
RemapOk == last'.op = "remap_gpa_to_hpa" /\ last'.res = "Ok"

\* C3: after split_2mb_to_4kb(guest_pa, idx) succeeds for any guest_pa inside a
\* 2MB region mapped by a large PD entry, every entry t of pt[idx] has
\* pfn = (base + t * 4096) >> 12, base being the start of that 2MB region, and
\* the memory type the large entry had before the call
C3_SplitEntriesFromRegionBase ==
    [][SplitOk =>
        LET g == last'.guest_pa
            pde == ept.pd[pdpt_index(g)][pd_index(g)]
        IN \A t \in TableIdx :
            /\ ept'.pt[last'.pt_table_index][t].pfn =
                  Shr(RegionBase(g) + t * BASE_PAGE_SIZE, BASE_PAGE_SHIFT)
            /\ ept'.pt[last'.pt_table_index][t].memory_type = pde.memory_type]_vars

\* C4: a successful split_2mb_to_4kb of a region whose PD entry is large leaves
\* the effective mapping of every 4KB page of that region unchanged: the same
\* permissions, memory type and host frame before and after the call
C4_SplitPreservesEffectiveMapping ==
    [][SplitOk =>
        \A g \in RegionPages(last'.guest_pa) :
            Effective(ept', eptBase, g) = Effective(ept, eptBase, g)]_vars

\* C4, for the calls whose guest_pa is the start of the 2MB region (the case in
\* which the frames are preserved): the permissions are still replaced
C4_AlignedSplitPreservesEffectiveMapping ==
    [][(SplitOk /\ is_large_page_aligned(last'.guest_pa)) =>
        \A g \in RegionPages(last'.guest_pa) :
            Effective(ept', eptBase, g) = Effective(ept, eptBase, g)]_vars

ModifySucceeded == last.op = "modify_page_permissions" /\ last.res = "Ok"

\* C5: after modify_page_permissions(guest_pa, access_type, idx) returns Ok for
\* a 4KB-aligned guest_pa of the mapped range, the entry governing guest_pa (the
\* large PD entry, or the PT entry reached through the PD entry) has readable,
\* writable and executable equal to the READ, WRITE and EXECUTE bits
C5_ModifySetsGoverningEntry ==
    (ModifySucceeded /\ last.guest_pa \in MappedPages) =>
        LET gov == Governing(ept, eptBase, last.guest_pa) IN
        /\ gov.level # "fault"
        /\ gov.entry.readable = contains(last.access_type, READ)
        /\ gov.entry.writable = contains(last.access_type, WRITE)
        /\ gov.entry.executable = contains(last.access_type, EXECUTE)

\* the PD entry a call's guest_pa selects
PdeOf(e, guest_pa) == e.pd[pdpt_index(guest_pa)][pd_index(guest_pa)]

\* C6: remap_gpa_to_hpa(g, h, idx) with aligned g and h on a region whose PD
\* entry is large returns LargePageRemapError and changes nothing; right after
\* a successful split_2mb_to_4kb of the same region with the same idx, the
\* remap returns Ok and the only change in the Ept is the pfn of
\* pt[idx][pt_index(g)], which becomes h >> 12
C6_RemapAfterSplit ==
    [][(/\ last'.op = "remap_gpa_to_hpa"
        /\ ValidPtIndex(last'.pt_table_index)
        /\ is_base_page_aligned(last'.guest_pa)
        /\ is_base_page_aligned(last'.host_pa)) =>
            /\ PdeOf(ept, last'.guest_pa).large =>
                  /\ last'.res = "LargePageRemapError"
                  /\ ept' = ept
            /\ (/\ last.op = "split_2mb_to_4kb"
                /\ last.res = "Ok"
                /\ last.pt_table_index = last'.pt_table_index
                /\ RegionBase(last.guest_pa) = RegionBase(last'.guest_pa)) =>
                  /\ last'.res = "Ok"
                  /\ ept' = [ept EXCEPT
                        !.pt[last'.pt_table_index][pt_index(last'.guest_pa)].pfn =
                            Shr(last'.host_pa, BASE_PAGE_SHIFT)]]_vars

\* C6 witness: a remap that succeeded on a split region: the PD entry points to
\* pt[idx] and the governing 4KB entry now holds the host frame
C6_Witness ==
    /\ last.op = "remap_gpa_to_hpa"
    /\ last.res = "Ok"
    /\ PtAt(eptBase, PdeOf(ept, last.guest_pa).pfn) = {last.pt_table_index}
    /\ Governing(ept, eptBase, last.guest_pa).entry.pfn =
          Shr(last.host_pa, BASE_PAGE_SHIFT)
    /\ Shr(last.host_pa, BASE_PAGE_SHIFT) # Shr(last.guest_pa, BASE_PAGE_SHIFT)

EptCalls == {"split_2mb_to_4kb", "modify_page_permissions", "remap_gpa_to_hpa"}

\* C8: the three calls return InvalidPtIndex, and leave the Ept unchanged, when
\* pt_table_index is 0 or >= pt.len(), whatever the other arguments and the
\* tables are; with an index in 1 .. pt.len() - 1 they never return it
C8_InvalidPtIndex ==
    [][last'.op \in EptCalls =>
        /\ (last'.pt_table_index = 0 \/ last'.pt_table_index >= PT_TABLES) =>
              /\ last'.res = "InvalidPtIndex"
              /\ ept' = ept
        /\ last'.pt_table_index \in 1 .. PT_TABLES - 1 =>
              last'.res # "InvalidPtIndex"]_vars

\* C8 witness: modify_page_permissions with index 0 on an unaligned address is
\* rejected for its index, not for its alignment
C8_Witness ==
    /\ last.op = "modify_page_permissions"
    /\ last.pt_table_index = 0
    /\ ~is_base_page_aligned(last.guest_pa)
    /\ last.res = "InvalidPtIndex"

\* C9: with a valid pt_table_index, modify_page_permissions on a guest_pa that
\* is not 4KB-aligned, and remap_gpa_to_hpa on a guest_pa or host_pa that is not
\* 4KB-aligned, return UnalignedAddressError and change nothing, for remap also
\* when the PD entry is large
C9_UnalignedRejected ==
    [][ValidPtIndex(last'.pt_table_index) =>
        /\ (/\ last'.op = "modify_page_permissions"
            /\ ~is_base_page_aligned(last'.guest_pa)) =>
              /\ last'.res = "UnalignedAddressError"
              /\ ept' = ept
        /\ (/\ last'.op = "remap_gpa_to_hpa"
            /\ \/ ~is_base_page_aligned(last'.guest_pa)
               \/ ~is_base_page_aligned(last'.host_pa)) =>
              /\ last'.res = "UnalignedAddressError"
              /\ ept' = ept]_vars

\* C9 witness: a remap of an aligned guest address of a large region to an
\* unaligned host address was rejected for the alignment
C9_Witness ==
    /\ last.op = "remap_gpa_to_hpa"
    /\ last.res = "UnalignedAddressError"
    /\ is_base_page_aligned(last.guest_pa)
    /\ ~is_base_page_aligned(last.host_pa)
    /\ PdeOf(ept, last.guest_pa).large

\* entry a differs from entry b in its permission bits at most
PermissionsAside(a, b) ==
    a = [b EXCEPT !.readable = a.readable, !.writable = a.writable,
                  !.executable = a.executable]

\* C10: a successful modify_page_permissions changes at most the permission
\* bits of one entry, the large PD entry or one entry of pt[pt_table_index];
\* every other field and entry of the Ept is unchanged, and no EPTP write or
\* cache invalidation is made
C10_ModifyIsPermissionOnly ==
    [][ModifyOk =>
        LET g == last'.guest_pa
            i == pdpt_index(g)
            j == pd_index(g)
            k == last'.pt_table_index
            t == pt_index(g)
        IN /\ IF PdeOf(ept, g).large
              THEN /\ ept' = [ept EXCEPT !.pd[i][j] = ept'.pd[i][j]]
                   /\ PermissionsAside(ept'.pd[i][j], ept.pd[i][j])
              ELSE /\ ept' = [ept EXCEPT !.pt[k][t] = ept'.pt[k][t]]
                   /\ PermissionsAside(ept'.pt[k][t], ept.pt[k][t])
           /\ UNCHANGED <<activeEptp, vmwrites, invepts>>]_vars

\* C10 witness: a large PD entry whose permissions were reduced and that kept
\* its write-back memory type, its frame and its large flag
C10_Witness ==
    /\ ModifySucceeded
    /\ LET pde == PdeOf(ept, last.guest_pa) IN
        /\ pde.large
        /\ ~pde.executable
        /\ pde.readable
        /\ pde.memory_type = WriteBack
        /\ pde.pfn = Shr(RegionBase(last.guest_pa), BASE_PAGE_SHIFT)

\* C11: after unmap_2mb(e), for every Entry value e, the entry is not present
\* and its readable, writable, executable, memory_type, large and pfn fields
\* are all cleared; a second call leaves it in that all-zero state
C11_UnmapClearsEveryEntry ==
    unmaps >= 1 =>
        /\ ~Present(entryCell)
        /\ entryCell = ZeroEntry

\* the k-th PD entry of the walk (k = i * ENTRIES + j) and the 2MB range it maps
WalkPde(e, k) == e.pd[k \div ENTRIES][k % ENTRIES]
WalkRange(k) == <<k * LARGE_PAGE_SIZE, (k + 1) * LARGE_PAGE_SIZE>>
PageRange(t) == <<t * BASE_PAGE_SIZE, (t + 1) * BASE_PAGE_SIZE>>

\* C12: after build_identity succeeds, pd[0][0] is a non-large pointer to pt[0]
\* and every other PD entry of every PD table is a large page; each 4KB leaf
\* of pt[0] carries the memory type the resolver returns for its own 4KB
\* range, each large leaf the one the resolver returns for its own 2MB range
C12_BuildGranularityAndMemoryTypes ==
    BuildSucceeded =>
        /\ ~ept.pd[0][0].large
        /\ PtAt(eptBase, ept.pd[0][0].pfn) = {0}
        /\ \A t \in TableIdx :
              {ept.pt[0][t].memory_type} = mtrr[PageRange(t)]
        /\ \A k \in 1 .. ENTRIES * ENTRIES - 1 :
              /\ WalkPde(ept, k).large
              /\ {WalkPde(ept, k).memory_type} = mtrr[WalkRange(k)]

\* C12 witness: a successful build under a resolver that classifies the first
\* two 4KB pages differently, and the last two 2MB ranges differently
C12_Witness ==
    /\ BuildSucceeded
    /\ ept.pt[0][0].memory_type = WriteBack
    /\ ept.pt[0][1].memory_type = Uncacheable
    /\ WalkPde(ept, ENTRIES * ENTRIES - 2).memory_type = Uncacheable
    /\ WalkPde(ept, ENTRIES * ENTRIES - 1).memory_type = WriteBack
    /\ WalkPde(ept, ENTRIES * ENTRIES - 1).large

EptpReturned == ret.op = "create_eptp_with_wb_and_4lvl_walk"

\* C13: create_eptp_with_wb_and_4lvl_walk returns InvalidEptPml4BaseAddress
\* when the PML4 base has a nonzero bit among its low 12 bits; for every
\* 4KB-aligned base, 0 included, it returns base | 0x18 | 6, from which the
\* base is recovered by clearing the low 12 bits; no control field is written
\* and the Ept is not modified
C13_EptpEncoding ==
    EptpReturned =>
        /\ eptBase % 4096 # 0 => ret.res = "InvalidEptPml4BaseAddress"
        /\ eptBase % 4096 = 0 =>
              /\ ret.res = "Ok"
              /\ ret.eptp = eptBase + 24 + 6
              /\ ret.eptp - (ret.eptp % 4096) = eptBase
        /\ ept = ZeroEpt
        /\ \A c \in Cpus : activeEptp[c] = 0 /\ vmwrites[c] = 0 /\ invepts[c] = 0

\* C13 witness: the highest aligned base of the sample was encoded with the
\* walk length and the write-back code in its low bits
C13_Witness ==
    /\ EptpReturned
    /\ eptBase = MaxBasePage * BASE_PAGE_SIZE
    /\ ret.res = "Ok"
    /\ ret.eptp % 4096 = 30
    /\ ret.eptp \div 4096 = MaxBasePage

\* the two exit-qualification patterns that trigger a swap
ReadWritePattern == [readable |-> TRUE, writable |-> TRUE, executable |-> FALSE]
ExecuteOnlyPattern == [readable |-> FALSE, writable |-> FALSE, executable |-> TRUE]

\* C14: for each of the six exit-qualification patterns other than (readable,
\* writable, not executable) and (not readable, not writable, executable),
\* handle_ept_violation makes no EPTP write and no cache invalidation, and the
\* active EPTP after the handler is the one active before it
C14_OtherPatternsNoSwap ==
    \A c \in Cpus :
        (/\ ViolationHandled(c)
         /\ qual[c] \notin {ReadWritePattern, ExecuteOnlyPattern}) =>
            /\ vmwrites[c] = 0
            /\ invepts[c] = 0
            /\ activeEptp[c] = entryEptp[c]

\* C14 witness: an exit with all three bits set, taken while the secondary
\* EPTP was active, was handled and the secondary EPTP is still active
C14_Witness ==
    \E c \in Cpus :
        /\ ViolationHandled(c)
        /\ qual[c] = [readable |-> TRUE, writable |-> TRUE, executable |-> TRUE]
        /\ entryEptp[c] = shared_data.secondary_eptp
        /\ activeEptp[c] = shared_data.secondary_eptp
        /\ vmwrites[c] = 0

\* the positions inside handle_ept_violation
ViolationPcs ==
    {"check_rw", "write_secondary", "invept_secondary", "check_x",
     "write_primary", "invept_primary", "return"}

\* C15: for every exit qualification, handle_ept_violation returns
\* ExitType::Continue, never IncrementRIP or ExitHypervisor: a processor inside
\* the handler stays inside it without a return value or goes back to the
\* guest with Continue, and the return itself leaves the active EPTP as the
\* handler set it
C15_ViolationReturnsContinue ==
    [][\A c \in Cpus :
        pc[c] \in ViolationPcs =>
            /\ pc'[c] \in ViolationPcs \cup {"guest"}
            /\ pc'[c] \in ViolationPcs => exitType'[c] = "none"
            /\ pc'[c] = "guest" =>
                  /\ exitType'[c] = "Continue"
                  /\ activeEptp'[c] = activeEptp[c]]_vars

\* C15 witness: one processor returned Continue from a swapping exit and
\* another from an exit with no bit set
C15_Witness ==
    \E c1, c2 \in Cpus :
        /\ ViolationHandled(c1)
        /\ qual[c1] = ReadWritePattern
        /\ activeEptp[c1] = shared_data.secondary_eptp
        /\ ViolationHandled(c2)
        /\ qual[c2] = [readable |-> FALSE, writable |-> FALSE, executable |-> FALSE]
        /\ vmwrites[c2] = 0

\* the positions of handle_ept_misconfiguration: at the int3, and returned
MisconfigPcs == {"int3", "exited"}

\* C16: an EPT-misconfiguration exit is fatal: handle_ept_misconfiguration
\* writes no EPTP and invalidates nothing, returns neither Continue nor
\* IncrementRIP, and ends only in the debug break followed by
\* ExitType::ExitHypervisor; no step takes the processor back to the guest
C16_MisconfigurationIsFatal ==
    [][\A c \in Cpus :
        /\ pc'[c] \in MisconfigPcs =>
              /\ vmwrites'[c] = 0
              /\ invepts'[c] = 0
              /\ activeEptp'[c] = entryEptp'[c]
              /\ exitType'[c] =
                    (IF pc'[c] = "exited" THEN "ExitHypervisor" ELSE "none")
        /\ pc[c] \in MisconfigPcs => pc'[c] \in MisconfigPcs
        /\ pc[c] = "exited" => pc'[c] = "exited"]_vars

\* C16 witness: a processor that took the misconfiguration exit while the
\* secondary EPTP was active has returned ExitHypervisor, the EPTP untouched
C16_Witness ==
    \E c \in Cpus :
        /\ pc[c] = "exited"
        /\ exitType[c] = "ExitHypervisor"
        /\ entryEptp[c] = shared_data.secondary_eptp
        /\ activeEptp[c] = shared_data.secondary_eptp
        /\ vmwrites[c] = 0

\* the accessor read back what the matching constructor was given
PaOfFromPa == ret.op = "pa" /\ physAddr.from = "from_pa"
PfnOfFromPfn == ret.op = "pfn" /\ physAddr.from = "from_pfn"

\* C17, as claimed: for every 64-bit value x, from_pa(x).pa() = x and
\* from_pfn(x).pfn() = x
C17_RoundTripForEveryU64 ==
    /\ PaOfFromPa => ret.value = arg
    /\ PfnOfFromPfn => ret.value = arg

\* C17, amended: for every 64-bit value x, from_pa(x).pa() = x and
\* from_pfn(x).pfn() = x mod 2^52 (from_pfn holds x << 12 and pfn() returns
\* pa >> 12, both on 64 bits); hence from_pfn(x).pfn() = x for every x < 2^52
C17_RoundTripBelow52Bits ==
    /\ PaOfFromPa => ret.value = arg
    /\ PfnOfFromPfn =>
          /\ physAddr.value = Shl64(arg, 12)
          /\ ret.value = {b \in arg : b < 52}
          /\ (\A b \in arg : b < 52) => ret.value = arg

\* C17 witness: the frame number 2^51 + 1, the widest that fits, was read back
C17_Witness ==
    /\ PfnOfFromPfn
    /\ arg = {0, 51}
    /\ physAddr.value = {12, 63}
    /\ ret.value = {0, 51}

BuildFailed ==
    last.op = "build_identity" /\ last.res = "MemoryTypeResolutionError"

\* the queries the resolver cannot answer, in the order build_identity makes
\* them: the 4KB ranges of the first 2MB, then the 2MB ranges
FailedPages == {t \in TableIdx : mtrr[PageRange(t)] = {}}
FailedRegions == {k \in 1 .. ENTRIES * ENTRIES - 1 : mtrr[WalkRange(k)] = {}}
FirstOf(S) == CHOOSE x \in S : \A y \in S : x <= y

\* a populated leaf: full access, the resolver's memory type, the identity frame
PopulatedLeaf(entry, range, large) ==
    /\ entry.readable /\ entry.writable /\ entry.executable
    /\ {entry.memory_type} = mtrr[range]
    /\ entry.large = large
    /\ entry.pfn = Shr(range[1], BASE_PAGE_SHIFT)

\* C18: when the resolver has no classification for a queried range,
\* build_identity stops at the first failing query and returns
\* MemoryTypeResolutionError (and main aborts); the leaves written before the
\* failure stay populated, the leaf of the failing range and every later
\* entry are left zeroed
C18_BuildFailureIsPartial ==
    last.op = "build_identity" =>
        /\ BuildFailed <=> (FailedPages \cup FailedRegions # {})
        /\ BuildFailed =>
              LET ft == IF FailedPages # {} THEN FirstOf(FailedPages) ELSE ENTRIES
                  fk == IF FailedPages # {} THEN 1 ELSE FirstOf(FailedRegions)
              IN /\ phase = "aborted"
                 /\ \A t \in TableIdx :
                       IF t < ft THEN PopulatedLeaf(ept.pt[0][t], PageRange(t), FALSE)
                       ELSE ept.pt[0][t] = ZeroEntry
                 /\ \A k \in 1 .. ENTRIES * ENTRIES - 1 :
                       IF k < fk THEN PopulatedLeaf(WalkPde(ept, k), WalkRange(k), TRUE)
                       ELSE WalkPde(ept, k) = ZeroEntry
                 /\ \A i \in TableIdx :
                       (i * ENTRIES > fk \/ (FailedPages # {} /\ i > 0)) =>
                           ept.pdpt[i] = ZeroEntry
                 /\ \A k \in PtTableIdx \ {0} : ept.pt[k] = ZeroTable

\* C18 witness: the build failed at the last 2MB range of the walk; the 4KB
\* leaves and the large leaves before it are populated, the last PD entry is
\* still zero
C18_Witness ==
    /\ BuildFailed
    /\ ept.pt[0][ENTRIES - 1].readable
    /\ WalkPde(ept, ENTRIES * ENTRIES - 2).large
    /\ WalkPde(ept, ENTRIES * ENTRIES - 2).pfn =
          Shr(MAPPED_SIZE - 2 * LARGE_PAGE_SIZE, BASE_PAGE_SHIFT)
    /\ WalkPde(ept, ENTRIES * ENTRIES - 1) = ZeroEntry

\* C19: the active EPTP is a two-state machine: on every processor it is
\* always the primary or the secondary EPTP, and whenever no handler run is in
\* progress it is the secondary one exactly when an exit matched a swap
\* pattern and the most recent such exit was (readable, writable, not
\* executable); the handler sets the state and does not toggle it, so that
\* pattern taken with the secondary EPTP active leaves the secondary active
C19_TwoStateMachine ==
    \A c \in Cpus :
        /\ activeEptp[c] \in {shared_data.primary_eptp, shared_data.secondary_eptp}
        /\ pc[c] \notin ViolationPcs =>
              (activeEptp[c] = shared_data.secondary_eptp <=> lastSwapRW[c])
        /\ (ViolationHandled(c) /\ qual[c] = ReadWritePattern
               /\ entryEptp[c] = shared_data.secondary_eptp) =>
              activeEptp[c] = shared_data.secondary_eptp

\* C19 witness: after a read/write exit and then an exit that matches neither
\* pattern, the secondary EPTP is still the active one
C19_Witness ==
    \E c \in Cpus :
        /\ ViolationHandled(c)
        /\ qual[c] = [readable |-> TRUE, writable |-> FALSE, executable |-> FALSE]
        /\ lastSwapRW[c]
        /\ entryEptp[c] = shared_data.secondary_eptp
        /\ activeEptp[c] = shared_data.secondary_eptp

\* C20: in every run of handle_ept_violation each write of the active EPTP is
\* followed, before the return to the guest, by exactly one
\* invalidate-all-contexts call, and no invalidation is issued without a
\* preceding write in that run; so the guest never resumes with a changed
\* EPTP and a translation cache not invalidated since the change
C20_InvalidateAfterEveryWrite ==
    [][\A c \in Cpus :
        \* a write happens only when every earlier write was invalidated
        /\ vmwrites'[c] = vmwrites[c] + 1 => invepts[c] = vmwrites[c]
        \* an invalidation happens only for a write not yet invalidated
        /\ invepts'[c] = invepts[c] + 1 => vmwrites[c] = invepts[c] + 1
        \* at most one write is awaiting its invalidation
        /\ invepts'[c] <= vmwrites'[c]
        /\ vmwrites'[c] <= invepts'[c] + 1
        \* back in the guest: as many invalidations as writes
        /\ pc'[c] = "guest" =>
              /\ invepts'[c] = vmwrites'[c]
              /\ activeEptp'[c] # entryEptp'[c] => invepts'[c] >= 1]_vars

\* C20 witness: a processor resumed the guest on the secondary EPTP, having
\* entered on the primary, after one write and one invalidation
C20_Witness ==
    \E c \in Cpus :
        /\ ViolationHandled(c)
        /\ entryEptp[c] = shared_data.primary_eptp
        /\ activeEptp[c] = shared_data.secondary_eptp
        /\ vmwrites[c] = 1
        /\ invepts[c] = 1

\* the step is the return of handle_ept_violation on processor c
ViolationReturn(c) == pc[c] = "return" /\ pc'[c] = "guest"

\* C21: whenever a guest data access (a read alone, a write alone, or a
\* read-write) raises an EPT violation on the page that is execute-only in
\* the active primary table, the handler returns with the secondary EPTP
\* active, so the re-executed access is serviced instead of raising the same
\* violation again; and an execute attempt that faults under the secondary
\* table returns with the primary EPTP active
C21_FaultingAccessSwitchesTable ==
    [][\A c \in Cpus :
        ViolationReturn(c) =>
            /\ (access[c] \in DataAccesses
                   /\ entryEptp[c] = shared_data.primary_eptp) =>
                  activeEptp'[c] = shared_data.secondary_eptp
            /\ (access[c] = "execute"
                   /\ entryEptp[c] = shared_data.secondary_eptp) =>
                  activeEptp'[c] = shared_data.primary_eptp]_vars

\* C21, for the accesses the handler does switch on: a read-write access
\* under the primary table and an execute attempt under the secondary one
C21_ReadWriteAndExecuteSwitchTable ==
    [][\A c \in Cpus :
        ViolationReturn(c) =>
            /\ (access[c] = "read_write"
                   /\ entryEptp[c] = shared_data.primary_eptp) =>
                  activeEptp'[c] = shared_data.secondary_eptp
            /\ (access[c] = "execute"
                   /\ entryEptp[c] = shared_data.secondary_eptp) =>
                  activeEptp'[c] = shared_data.primary_eptp]_vars

\* the pointer build_identity left in pd[0][0]: full access, not large, no
\* memory type, the frame of pt[0]
Pt0Pointer ==
    [readable |-> TRUE, writable |-> TRUE, executable |-> TRUE,
     memory_type |-> 0, large |-> FALSE,
     pfn |-> Shr(PtAddr(eptBase, 0), BASE_PAGE_SHIFT)]

\* C22: pt[0] is permanently reserved: in every state reached from a
\* successful build_identity by split_2mb_to_4kb, modify_page_permissions and
\* remap_gpa_to_hpa calls with any arguments, every entry of pt[0] and the PD
\* entry pd[0][0] pointing to it are as build_identity left them, so the
\* first 2MB is still mapped through pt[0] at 4KB granularity
C22_Pt0Reserved ==
    phase = "built" =>
        /\ ept.pd[0][0] = Pt0Pointer
        /\ \A t \in TableIdx : PopulatedLeaf(ept.pt[0][t], PageRange(t), FALSE)
        /\ \A g \in MappedPages :
              g < LARGE_PAGE_SIZE => Governing(ept, eptBase, g).level = "pt"

\* C22 witness: after the last of the explored calls, a modify_page_permissions
\* on a page of the first 2MB that returned Ok, the pt[0] entry of that page
\* still grants full access
C22_Witness ==
    /\ nOps = MaxOps
    /\ ModifySucceeded
    /\ last.guest_pa = BASE_PAGE_SIZE
    /\ last.access_type = READ
    /\ ept.pt[0][1].writable
    /\ ept.pt[0][1].executable

\* a table-pointer entry as the claim describes it: full access, not large,
\* no memory type
PlainPointer(entry) ==
    /\ entry.readable /\ entry.writable /\ entry.executable
    /\ ~entry.large
    /\ entry.memory_type = 0

\* C23: in every state reached from a successful build_identity on a zeroed
\* Ept by split_2mb_to_4kb, modify_page_permissions and remap_gpa_to_hpa
\* calls, only leaf entries carry a memory type: PML4 entry 0, every PDPT
\* entry and every PD entry with large = false that points to a page table
\* have full read/write/execute permission, large = false and memory_type 0
C23_PointersCarryNoMemoryType ==
    phase = "built" =>
        /\ PlainPointer(ept.pml4[0])
        /\ \A i \in TableIdx : PlainPointer(ept.pdpt[i])
        /\ \A i \in TableIdx, j \in TableIdx :
              (~ept.pd[i][j].large /\ PtAt(eptBase, ept.pd[i][j].pfn) # {}) =>
                  PlainPointer(ept.pd[i][j])

\* C23, for the pointer entries build_identity writes and the permissions and
\* large flag of those split_2mb_to_4kb writes: these are as claimed
C23_PointersHaveFullAccess ==
    phase = "built" =>
        /\ PlainPointer(ept.pml4[0])
        /\ \A i \in TableIdx : PlainPointer(ept.pdpt[i])
        /\ PlainPointer(ept.pd[0][0])
        /\ \A i \in TableIdx, j \in TableIdx :
              (~ept.pd[i][j].large /\ PtAt(eptBase, ept.pd[i][j].pfn) # {}) =>
                  /\ ept.pd[i][j].readable
                  /\ ept.pd[i][j].writable
                  /\ ept.pd[i][j].executable

\* the PD entries that point to pt[k]: the regions page table k is used for
RegionsUsing(e, base, k) ==
    {ij \in TableIdx \X TableIdx :
        /\ ~e.pd[ij[1]][ij[2]].large
        /\ PtAt(base, e.pd[ij[1]][ij[2]].pfn) = {k}}

\* whether the walk for g reaches a leaf entry, and the host frame that entry
\* designates (the permission bits of the leaf, which modify_page_permissions
\* sets, aside)
Translation(e, base, g) ==
    LET gov == Governing(e, base, g) IN
    IF gov.level = "fault" THEN [mapped |-> FALSE, frame |-> 0]
    ELSE [mapped |-> TRUE,
          frame |-> IF gov.level = "pd"
                    THEN (gov.entry.pfn - (gov.entry.pfn % ENTRIES)) + pt_index(g)
                    ELSE gov.entry.pfn]

\* g translates to the host address h
TranslatesTo(e, base, g, h) ==
    Translation(e, base, g) = [mapped |-> TRUE, frame |-> Shr(h, BASE_PAGE_SHIFT)]

\* every 4KB page of the mapped range translates to the equal host address
IdentityMapped(e, base) == \A g \in MappedPages : TranslatesTo(e, base, g, g)

\* C24: identity is preserved under caller discipline. build_identity leaves
\* every address of the mapped range translating to itself; a successful
\* split_2mb_to_4kb with a 2MB-aligned guest_pa and a pt_table_index no region
\* uses yet, and any modify_page_permissions call, keep it so; a successful
\* remap_gpa_to_hpa(g, h, idx), idx being the index of the page table that backs
\* g's region and no other region, makes the 4KB page g translate to h and
\* changes the translation of no other page
C24_IdentityUnderDiscipline ==
    [][/\ (last'.op = "build_identity" /\ last'.res = "Ok") =>
              IdentityMapped(ept', eptBase)
       /\ (/\ SplitOk
           /\ is_large_page_aligned(last'.guest_pa)
           /\ RegionsUsing(ept, eptBase, last'.pt_table_index) = {}
           /\ IdentityMapped(ept, eptBase)) =>
              IdentityMapped(ept', eptBase)
       /\ (/\ last'.op = "modify_page_permissions"
           /\ ept' # ept
           /\ IdentityMapped(ept, eptBase)) =>
              IdentityMapped(ept', eptBase)
       /\ (/\ RemapOk
           /\ RegionsUsing(ept, eptBase, last'.pt_table_index) =
                 {<<pdpt_index(last'.guest_pa), pd_index(last'.guest_pa)>>}) =>
              /\ TranslatesTo(ept', eptBase, last'.guest_pa, last'.host_pa)
              /\ \A p \in MappedPages \ {last'.guest_pa} :
                    Translation(ept', eptBase, p) = Translation(ept, eptBase, p)]_vars

\* C24 witness: two regions have been split with aligned addresses into two
\* different page tables and every page still translates to itself
C24_Witness ==
    /\ last.op = "split_2mb_to_4kb"
    /\ last.res = "Ok"
    /\ is_large_page_aligned(last.guest_pa)
    /\ IdentityMapped(ept, eptBase)
    /\ \E k1 \in PtTableIdx \ {0}, k2 \in PtTableIdx \ {0} :
          /\ k1 # k2
          /\ Cardinality(RegionsUsing(ept, eptBase, k1)) = 1
          /\ Cardinality(RegionsUsing(ept, eptBase, k2)) = 1

\* C24 witness of the remap half: after a disciplined split, the remap through
\* the backing index moved page g alone; every other page keeps its own frame
C24_RemapWitness ==
    /\ last.op = "remap_gpa_to_hpa"
    /\ last.res = "Ok"
    /\ RegionsUsing(ept, eptBase, last.pt_table_index) =
          {<<pdpt_index(last.guest_pa), pd_index(last.guest_pa)>>}
    /\ TranslatesTo(ept, eptBase, last.guest_pa, last.host_pa)
    /\ \A p \in MappedPages \ {last.guest_pa} : TranslatesTo(ept, eptBase, p, p)

\* the PD entry of region A = <<i, j>>, and the address of its page t
PdEntry(e, A) == e.pd[A[1]][A[2]]
PageOf(A, t) == A[1] * HUGE_PAGE_SIZE + A[2] * LARGE_PAGE_SIZE + t * BASE_PAGE_SIZE

\* the regions other than guest_pa's own whose PD entry points to pt[k]
OtherRegionsUsing(e, base, k, guest_pa) ==
    RegionsUsing(e, base, k) \ {<<pdpt_index(guest_pa), pd_index(guest_pa)>>}

\* C25: PT-index ownership is not checked. When split_2mb_to_4kb(B, k) is called
\* for a still-large region B with a valid index k that the PD entry of another
\* region A already points to, the call returns Ok, pt[k] holds B's mappings
\* (frames counted from B's address, B's memory type), A's PD entry is unchanged
\* and still points to pt[k], and every page of A translates to the frame of the
\* corresponding page of B
C25_IndexReuseOverwrites ==
    [][(/\ last'.op = "split_2mb_to_4kb"
        /\ ValidPtIndex(last'.pt_table_index)
        /\ PdeOf(ept, last'.guest_pa).large
        /\ OtherRegionsUsing(ept, eptBase, last'.pt_table_index,
                             last'.guest_pa) # {}) =>
            LET k == last'.pt_table_index
                B == last'.guest_pa
            IN /\ last'.res = "Ok"
               /\ \A t \in TableIdx :
                     /\ ept'.pt[k][t].pfn =
                           Shr(B + t * BASE_PAGE_SIZE, BASE_PAGE_SHIFT)
                     /\ ept'.pt[k][t].memory_type = PdeOf(ept, B).memory_type
               /\ \A A \in OtherRegionsUsing(ept, eptBase, k, B) :
                     /\ PdEntry(ept', A) = PdEntry(ept, A)
                     /\ PtAt(eptBase, PdEntry(ept', A).pfn) = {k}
                     /\ \A t \in TableIdx :
                           /\ TranslatesTo(ept', eptBase, PageOf(A, t),
                                           B + t * BASE_PAGE_SIZE)
                           /\ Translation(ept', eptBase, PageOf(A, t)) =
                                 Translation(ept', eptBase,
                                             RegionBase(B) + t * BASE_PAGE_SIZE)]_vars

\* C25 witness: the second split with the same index succeeded on the aligned
\* start of another region; two PD entries point to the one page table, and the
\* first page of the region split earlier translates to the frame of the
\* region split last instead of its own
C25_Witness ==
    /\ last.op = "split_2mb_to_4kb"
    /\ last.res = "Ok"
    /\ is_large_page_aligned(last.guest_pa)
    /\ \E A \in OtherRegionsUsing(ept, eptBase, last.pt_table_index, last.guest_pa) :
          /\ Cardinality(RegionsUsing(ept, eptBase, last.pt_table_index)) = 2
          /\ TranslatesTo(ept, eptBase, PageOf(A, 0), last.guest_pa)
          /\ ~TranslatesTo(ept, eptBase, PageOf(A, 0), PageOf(A, 0))

\* the EPTP the exit qualifications processor c has taken so far select: the
\* secondary one when the latest that matched a pattern was the read/write one
OwnEptp(c) ==
    IF lastSwapRW[c] THEN shared_data.secondary_eptp ELSE shared_data.primary_eptp

\* the two vmwrite statements of handle_ept_violation
WritePcs == {"write_secondary", "write_primary"}

\* C26: handle_ept_violation only reads the shared EPTP values and writes the
\* active EPTP of the processor that took the exit. No step of any processor's
\* handler changes the Ept, the shared primary/secondary EPTP values, or the
\* active EPTP, exit qualification or swap history of a processor that did not
\* take the step; a processor's active EPTP changes only at its own vmwrite
\* statements, to the value its own exit qualifications select, and back in
\* the guest it holds that value whatever the other processors did meanwhile
C26_HandlerWritesOwnEptpOnly ==
    [][/\ ept' = ept
       /\ eptBase' = eptBase
       /\ shared_data' = shared_data
       /\ \A c \in Cpus :
             /\ pc'[c] = pc[c] =>
                   /\ activeEptp'[c] = activeEptp[c]
                   /\ qual'[c] = qual[c]
                   /\ lastSwapRW'[c] = lastSwapRW[c]
             /\ activeEptp'[c] # activeEptp[c] =>
                   /\ pc[c] \in WritePcs
                   /\ activeEptp'[c] = OwnEptp(c)
             /\ pc'[c] = "guest" => activeEptp'[c] = OwnEptp(c)]_vars

\* C26 witness: two processors are inside the handler at the same time, one
\* having just loaded the secondary EPTP and the other, which entered with the
\* secondary active, the primary
C26_Witness ==
    \E c1, c2 \in Cpus :
        /\ pc[c1] = "invept_secondary"
        /\ activeEptp[c1] = shared_data.secondary_eptp
        /\ pc[c2] = "invept_primary"
        /\ entryEptp[c2] = shared_data.secondary_eptp
        /\ activeEptp[c2] = shared_data.primary_eptp

====
